---- MODULE Spec2Model ----
(***************************************************************************)
(* State-machine model of the NFC music player firmware (src/src/main.cpp):*)
(* the cooperative loop() with its serial command handler, volume button   *)
(* debounce, play-mode tag poll and grace-period check.                    *)
(*                                                                         *)
(* Time is the millis() counter.  Time passes only in the calls that block:*)
(* delay(), the reader polls and the tag page write.                       *)
(***************************************************************************)
EXTENDS Integers, Sequences, FiniteSets, TLC

\* ------------------------------------------------------------------ bounds
\* Iterations of loop() that are followed from the initial state.
MaxLoops == 6
\* Loop iterations in which a volume button is sampled active.
MaxPresses == 3
\* Times a tag is put into or taken out of the reader's field.
MaxMoves == 2
\* Command lines the operator sends.
MaxLines == 1
\* Iterations of loop() that are followed in a run with operator commands.
MaxCommandLoops == 4

\* ------------------------------------------------------- program constants
DEFAULT_VOLUME == 20
MAX_VOLUME == 30
MIN_VOLUME == 0
NFC_CHECK_INTERVAL == 200
TAG_GRACE_PERIOD == 2000
BUTTON_DEBOUNCE_DELAY == 200
\* uint8_t lastUID[7]
UID_BUFFER_LEN == 7
\* for (int i = 0; i < 50; i++) in writeSongNumber / readSongTag
MAX_ATTEMPTS == 50
\* per-attempt timeout of readPassiveTargetID in write / read mode
CMD_POLL_TIMEOUT == 200
\* timeout of readPassiveTargetID in checkNFCTag
PLAY_POLL_TIMEOUT == 100
\* delay(100) after ntag2xx_WritePage
WRITE_SETTLE_DELAY == 100
\* delay(1000) in setup(): value of millis() when loop() first runs
SETUP_DELAY == 1000
\* delay(10) at the end of loop()
LOOP_DELAY == 10
\* song numbers accepted by the write command and by the record decoder
MIN_SONG == 1
MAX_SONG == 99
\* page 4 magic bytes 'S', 'O', 'N'
CHAR_S == 83
CHAR_O == 79
CHAR_N == 78

\* millis() is an unsigned long that wraps; the model counter wraps the same
\* way at a modulus the checker's integers can hold.
ClockModulus == 2^30

PLAY_MODE == "PLAY_MODE"
WRITE_MODE == "WRITE_MODE"
READ_MODE == "READ_MODE"

\* ------------------------------------------------------------- environment
\* The tags of the environment.  The UID of one is a proper prefix of
\* another's, two UIDs have the same length.
Tags == {"A", "B", "C", "D"}
NoTag == "none"

TagUid == [t \in Tags |->
             CASE t = "A" -> <<4, 9>>
               [] t = "B" -> <<4>>
               [] t = "C" -> <<7, 9>>
               [] t = "D" -> <<7>>]

SongRecord(n) == <<CHAR_S, CHAR_O, CHAR_N, n>>

\* page 4 of each tag when it is first presented: two valid records, one with
\* the song number out of range, one blank tag
InitialPages == [t \in Tags |->
                   CASE t = "A" -> SongRecord(1)
                     [] t = "B" -> SongRecord(2)
                     [] t = "C" -> SongRecord(MAX_SONG + 1)
                     [] t = "D" -> <<0, 0, 0, 0>>]

\* time that passes between the grace check of one loop() iteration and the
\* start of the next: delay(10) plus whatever else the task was held up by
LoopDelays == {LOOP_DELAY, LOOP_DELAY * 90}

\* failed attempts of a write / read retry loop before its outcome
AttemptCases == {0, MAX_ATTEMPTS - 1, MAX_ATTEMPTS}

\* ---------------------------------------------------------- operator input
W == <<"w", "r", "i", "t", "e">>
WriteCmd(arg) == W \o <<" ">> \o arg
SerialLines ==
    { WriteCmd(<<"1">>), WriteCmd(<<"9", "9">>), WriteCmd(<<"2", "x">>),
      WriteCmd(<<"0">>),
      WriteCmd(<<"1", "0", "0">>), WriteCmd(<<"x">>), W \o <<" ">>,
      <<"r", "e", "a", "d">>,
      <<" ", "p", "l", "a", "y", "m", "o", "d", "e", " ">>,
      <<"s", "t", "o", "p">>, << >> }

NoInput == [available |-> FALSE, line |-> << >>]

\* What the environment does in one run: it works the volume buttons, or it
\* moves tags, or it moves a tag and sends commands.
Plans ==
    { [presses |-> MaxPresses, moves |-> 0, lines |-> 0, loops |-> MaxLoops],
      [presses |-> 0, moves |-> MaxMoves, lines |-> 0, loops |-> MaxLoops],
      [presses |-> 0, moves |-> 1, lines |-> MaxLines,
       loops |-> MaxCommandLoops] }

VARIABLES
    lastUID, lastUIDLength, lastTagDetectionTime, lastNFCCheckTime,
    isTagPresent, isSongPlaying, currentTrack, currentVolume,
    lastUpState, lastDownState, lastUpPress, lastDownPress,
    currentMode,
    led,          \* level of LED_PIN
    clock,        \* millis()
    pc,           \* position of the single thread of control
    songArg,      \* parameter songNum of writeSongNumber
    tag,          \* the tag in the reader's field, or NoTag
    pages,        \* page 4 of every tag
    cmds,         \* calls made by the last step, in order: play, stop, led,
                  \* volume, poll, writePage, print, and readSong with the
                  \* value readSongNumberFromTag returned
    input,        \* the command line consumed by the last step, or << >>
    polled,       \* UID delivered by the latest play-mode poll that found a tag
    event,        \* outcome of the latest play-mode poll: absent, same or new
    prevEvent,    \* outcome of the play-mode poll before that one
    lastUpEdge, lastDownEdge,  \* when each pin was last sampled going active
    elapsed,      \* time that has really passed since lastTagDetectionTime,
                  \* lastNFCCheckTime, lastUpPress and lastDownPress were
                  \* taken (since boot for those never taken)
    plan,         \* what the environment does at most in this run
    presses, moves, lines,  \* what the environment has done so far
    loops         \* iterations of loop() completed

state == <<lastUID, lastUIDLength, lastTagDetectionTime, lastNFCCheckTime,
           isTagPresent, isSongPlaying, currentTrack, currentVolume>>
buttons == <<lastUpState, lastDownState, lastUpPress, lastDownPress>>
polls == <<polled, event, prevEvent>>
edges == <<lastUpEdge, lastDownEdge>>
vars == <<state, buttons, currentMode, led, clock, pc, songArg, tag, pages,
          cmds, input, polls, edges, elapsed,
          presses, moves, lines, loops, plan>>

\* ------------------------------------------------------------ time
\* subtraction of two counter values as signed numbers
ElapsedSigned(a, b) == a - b

\* unsigned subtraction a - b of two counter values
Elapsed(a, b) == (a - b) % ClockModulus

Advance(t, d) == (t + d) % ClockModulus

\* d milliseconds pass
Tick(e, d) == [k \in DOMAIN e |-> e[k] + d]

\* ------------------------------------------------------------ String
IsSpace(c) == c = " "

RECURSIVE TrimLeft(_)
TrimLeft(s) == IF s # << >> /\ IsSpace(Head(s)) THEN TrimLeft(Tail(s)) ELSE s

RECURSIVE TrimRight(_)
TrimRight(s) ==
    IF s # << >> /\ IsSpace(s[Len(s)]) THEN TrimRight(SubSeq(s, 1, Len(s) - 1))
    ELSE s

\* String::trim()
Trim(s) == TrimRight(TrimLeft(s))

\* String::startsWith(prefix)
StartsWith(s, prefix) ==
    Len(s) >= Len(prefix) /\ SubSeq(s, 1, Len(prefix)) = prefix

\* String::substring(from), from counted from 0
Substring(s, from) == SubSeq(s, from + 1, Len(s))

DigitChars == <<"0", "1", "2", "3", "4", "5", "6", "7", "8", "9">>
IsDigit(c) == \E i \in 1..10 : DigitChars[i] = c
DigitValue(c) == (CHOOSE i \in 1..10 : DigitChars[i] = c) - 1

RECURSIVE ParseDigits(_, _)
ParseDigits(s, acc) ==
    IF s # << >> /\ IsDigit(Head(s))
    THEN ParseDigits(Tail(s), acc * 10 + DigitValue(Head(s)))
    ELSE acc

\* String::toInt() (atol): leading blanks, an optional sign, then the leading
\* decimal digits; 0 when there are none
ToInt(s) ==
    LET t == TrimLeft(s)
    IN  IF t # << >> /\ Head(t) = "-" THEN 0 - ParseDigits(Tail(t), 0)
        ELSE IF t # << >> /\ Head(t) = "+" THEN ParseDigits(Tail(t), 0)
        ELSE ParseDigits(t, 0)

\* ------------------------------------------------------------ utilities
\* a call with a numeric argument, and Serial.println of a message
Cmd(op, arg) == [op |-> op, arg |-> arg, text |-> ""]
Println(text) == [op |-> "print", arg |-> 0, text |-> text]

\* uidsMatch() with its result inverted
UidsDiffer(uid1, uid2, length) == \E i \in 1..length : uid1[i] # uid2[i]

\* uidsMatch(uid1, uid2, length): compares the first `length` bytes
UidsMatch(uid1, uid2, length) == \A i \in 1..length : uid1[i] = uid2[i]

\* memcpy(dst, src, n) into the 7-byte buffer dst
Memcpy(dst, src, n) ==
    [i \in 1..UID_BUFFER_LEN |-> IF i <= n THEN src[i] ELSE dst[i]]

\* ------------------------------------------------------------ playback
\* The playback operators work on p = [isSongPlaying, currentTrack, led, cmds].
Playback == [isSongPlaying |-> isSongPlaying, currentTrack |-> currentTrack,
             led |-> led, cmds |-> << >>]

PlaySong(p, trackNumber) ==
    [isSongPlaying |-> TRUE, currentTrack |-> trackNumber, led |-> TRUE,
     cmds |-> p.cmds \o <<Cmd("play", trackNumber), Cmd("led", 1)>>]

\* stopSong() without the early return
StopSongAlways(p) ==
    [isSongPlaying |-> FALSE, currentTrack |-> 0, led |-> FALSE,
     cmds |-> p.cmds \o <<Cmd("stop", 0), Cmd("led", 0)>>]

\* stopSong() leaving currentTrack as it is
StopSongKeepsTrack(p) ==
    IF ~p.isSongPlaying THEN p
    ELSE [isSongPlaying |-> FALSE, currentTrack |-> p.currentTrack,
          led |-> FALSE, cmds |-> p.cmds \o <<Cmd("stop", 0), Cmd("led", 0)>>]

\* stopSong()
StopSong(p) ==
    IF ~p.isSongPlaying THEN p
    ELSE [isSongPlaying |-> FALSE, currentTrack |-> 0, led |-> FALSE,
          cmds |-> p.cmds \o <<Cmd("stop", 0), Cmd("led", 0)>>]

\* readSongNumberFromTag() with the upper limit exclusive
ReadSongNumberBelowMax(success, data) ==
    IF ~success THEN -1
    ELSE IF data[1] = CHAR_S /\ data[2] = CHAR_O /\ data[3] = CHAR_N
            /\ data[4] >= MIN_SONG /\ data[4] < MAX_SONG
         THEN data[4]
         ELSE -1

\* readSongNumberFromTag(): success is the outcome of ntag2xx_ReadPage(4, data)
ReadSongNumberFromTag(success, data) ==
    IF ~success THEN -1
    ELSE IF data[1] = CHAR_S /\ data[2] = CHAR_O /\ data[3] = CHAR_N
            /\ data[4] >= MIN_SONG /\ data[4] <= MAX_SONG
         THEN data[4]
         ELSE -1

\* handleNewTag() returning at once when the record cannot be used
HandleNewTagKeepsPlaying(p, songNumber) ==
    IF songNumber = -1 THEN p
    ELSE LET p1 == IF p.isSongPlaying /\ p.currentTrack # songNumber
                   THEN StopSong(p) ELSE p
         IN  IF ~p1.isSongPlaying THEN PlaySong(p1, songNumber) ELSE p1

\* handleNewTag() starting the new track without stopping the old one
HandleNewTagNoStop(p, songNumber) ==
    IF songNumber = -1 THEN StopSong(p)
    ELSE IF p.isSongPlaying /\ p.currentTrack = songNumber THEN p
    ELSE PlaySong(p, songNumber)

\* handleNewTag() without the test of isSongPlaying before playSong
HandleNewTagReplays(p, songNumber) ==
    IF songNumber = -1 THEN StopSong(p)
    ELSE LET p1 == IF p.isSongPlaying /\ p.currentTrack # songNumber
                   THEN StopSong(p) ELSE p
         IN  PlaySong(p1, songNumber)

\* handleNewTag() restarting the track whenever a valid record is read
HandleNewTagRestarts(p, songNumber) ==
    IF songNumber = -1 THEN StopSong(p)
    ELSE PlaySong(StopSong(p), songNumber)

\* handleNewTag(), given the result of its readSongNumberFromTag() call
HandleNewTag(p, songNumber) ==
    IF songNumber = -1 THEN StopSong(p)
    ELSE LET p1 == IF p.isSongPlaying /\ p.currentTrack # songNumber
                   THEN StopSong(p) ELSE p
         IN  IF ~p1.isSongPlaying THEN PlaySong(p1, songNumber) ELSE p1

\* adjustVolume(delta) without the upper limit
ClampVolumeNoMax(v) == IF v < MIN_VOLUME THEN MIN_VOLUME ELSE v

\* adjustVolume(delta) without the lower limit
ClampVolumeNoMin(v) == IF v > MAX_VOLUME THEN MAX_VOLUME ELSE v

\* adjustVolume(delta): the new level
ClampVolume(v) ==
    LET lo == IF v < MIN_VOLUME THEN MIN_VOLUME ELSE v
    IN  IF lo > MAX_VOLUME THEN MAX_VOLUME ELSE lo

AdjustVolume(level, delta) == ClampVolume(level + delta)

\* ------------------------------------------------------------ Init
\* The globals as initialized at lines 29-49, after setup() has run.
Init ==
    /\ lastUID = [i \in 1..UID_BUFFER_LEN |-> 0]
    /\ lastUIDLength = 0
    /\ lastTagDetectionTime = 0
    /\ lastNFCCheckTime = 0
    /\ isTagPresent = FALSE
    /\ isSongPlaying = FALSE
    /\ currentTrack = 0
    /\ currentVolume = DEFAULT_VOLUME
    /\ lastUpState = TRUE
    /\ lastDownState = TRUE
    /\ lastUpPress = 0
    /\ lastDownPress = 0
    /\ currentMode = PLAY_MODE
    /\ led = FALSE
    /\ clock = SETUP_DELAY
    /\ pc = "serial"
    /\ songArg = 0
    /\ tag = NoTag
    /\ pages = InitialPages
    /\ cmds = << >>
    /\ input = NoInput
    /\ polled = << >>
    /\ event = "none"
    /\ prevEvent = "none"
    /\ lastUpEdge = -1
    /\ lastDownEdge = -1
    /\ elapsed = [detection |-> SETUP_DELAY, poll |-> SETUP_DELAY,
                  up |-> SETUP_DELAY, down |-> SETUP_DELAY]
    /\ plan \in Plans
    /\ presses = 0
    /\ moves = 0
    /\ lines = 0
    /\ loops = 0

\* The states in which loop() begins an iteration after the device, with no
\* tag and no command, has had one volume button pressed and released once
\* every PressPeriod until the level reached a limit: every iteration polls
\* the reader in vain, the last press was accepted one iteration ago and the
\* button is still held.
PressPeriod == 2 * (LOOP_DELAY * 90 + PLAY_POLL_TIMEOUT)

InitSaturated ==
    \E v \in {MIN_VOLUME, MAX_VOLUME} :
       LET up == v > DEFAULT_VOLUME
           n == IF up THEN v - DEFAULT_VOLUME ELSE DEFAULT_VOLUME - v
           t == n * PressPeriod
       IN  /\ currentVolume = v
           /\ lastUpState = up
           /\ lastDownState = ~up
           /\ lastUpPress = IF up THEN t ELSE 0
           /\ lastDownPress = IF up THEN 0 ELSE t
           /\ lastUpEdge = IF up THEN t ELSE -1
           /\ lastDownEdge = IF up THEN -1 ELSE t
           /\ lastNFCCheckTime = t
           /\ clock = t + PLAY_POLL_TIMEOUT + LOOP_DELAY * 90
           /\ lastUID = [i \in 1..UID_BUFFER_LEN |-> 0]
           /\ lastUIDLength = 0
           /\ lastTagDetectionTime = 0
           /\ isTagPresent = FALSE
           /\ isSongPlaying = FALSE
           /\ currentTrack = 0
           /\ currentMode = PLAY_MODE
           /\ led = FALSE
           /\ pc = "serial"
           /\ songArg = 0
           /\ tag = NoTag
           /\ pages = InitialPages
           /\ cmds = << >>
           /\ input = NoInput
           /\ polled = << >>
           /\ event = "absent"
           /\ prevEvent = "absent"
           /\ elapsed = [detection |-> t + PLAY_POLL_TIMEOUT + LOOP_DELAY * 90,
                         poll |-> PLAY_POLL_TIMEOUT + LOOP_DELAY * 90,
                         up |-> IF up THEN PLAY_POLL_TIMEOUT + LOOP_DELAY * 90
                                ELSE t + PLAY_POLL_TIMEOUT + LOOP_DELAY * 90,
                         down |-> IF up
                                  THEN t + PLAY_POLL_TIMEOUT + LOOP_DELAY * 90
                                  ELSE PLAY_POLL_TIMEOUT + LOOP_DELAY * 90]
           /\ plan \in Plans
           /\ presses = 0
           /\ moves = 0
           /\ lines = 0
           /\ loops = 0

\* The state in which loop() begins the last iteration before millis() wraps,
\* on a device that has idled since boot: delay(10) after delay(10), a poll
\* that finds nothing every NFC_CHECK_INTERVAL from SETUP_DELAY on, the latest
\* one NFC_CHECK_INTERVAL ago, so that one is due now; the buttons were
\* never pressed.
WrapLead == ClockModulus % (NFC_CHECK_INTERVAL \div 2)

InitWrap ==
    /\ clock = ClockModulus - WrapLead
    /\ (clock - SETUP_DELAY) % NFC_CHECK_INTERVAL = 0
    /\ lastNFCCheckTime = clock - NFC_CHECK_INTERVAL
    /\ elapsed = [detection |-> clock, poll |-> NFC_CHECK_INTERVAL,
                  up |-> clock, down |-> clock]
    /\ lastUID = [i \in 1..UID_BUFFER_LEN |-> 0]
    /\ lastUIDLength = 0
    /\ lastTagDetectionTime = 0
    /\ isTagPresent = FALSE
    /\ isSongPlaying = FALSE
    /\ currentTrack = 0
    /\ currentVolume = DEFAULT_VOLUME
    /\ lastUpState = FALSE
    /\ lastDownState = FALSE
    /\ lastUpPress = 0
    /\ lastDownPress = 0
    /\ lastUpEdge = -1
    /\ lastDownEdge = -1
    /\ currentMode = PLAY_MODE
    /\ led = FALSE
    /\ pc = "serial"
    /\ songArg = 0
    /\ tag = NoTag
    /\ pages = InitialPages
    /\ cmds = << >>
    /\ input = NoInput
    /\ polled = << >>
    /\ event = "absent"
    /\ prevEvent = "absent"
    /\ plan \in Plans
    /\ presses = 0
    /\ moves = 0
    /\ lines = 0
    /\ loops = 0

\* ------------------------------------------------------------ environment
\* A tag is put into the reader's field, replacing the one that was there.
PlaceTag ==
    /\ pc \in {"serial", "write_poll", "read_poll"}
    /\ moves < plan.moves
    /\ moves' = moves + 1
    /\ \E t \in Tags : t # tag /\ tag' = t
    /\ cmds' = << >>
    /\ input' = NoInput
    /\ UNCHANGED <<state, buttons, currentMode, led, clock, pc, songArg,
                   pages, polls, edges, presses, lines, loops, plan,
                   elapsed>>

\* The tag is taken out of the reader's field.
RemoveTag ==
    /\ pc \in {"serial", "write_poll", "read_poll"}
    /\ tag # NoTag
    /\ moves < plan.moves
    /\ moves' = moves + 1
    /\ tag' = NoTag
    /\ cmds' = << >>
    /\ input' = NoInput
    /\ UNCHANGED <<state, buttons, currentMode, led, clock, pc, songArg,
                   pages, polls, edges, presses, lines, loops, plan,
                   elapsed>>

\* Outcomes of one readPassiveTargetID call: a tag in the field is found or
\* missed, an empty field yields nothing.
DetectOutcomes == IF tag = NoTag THEN {FALSE} ELSE {TRUE, FALSE}

\* ------------------------------------------------------------ commands
\* The range test of the write command one number too wide on either side
ValidSongNumberWide(songNum) ==
    songNum >= MIN_SONG - 1 /\ songNum <= MAX_SONG + 1

\* handleSerialCommands(), line 271: the range test of the write command
ValidSongNumber(songNum) == songNum >= MIN_SONG /\ songNum <= MAX_SONG

\* handleSerialCommands(), up to the point where it returns or enters
\* writeSongNumber / readSongTag.
SerialStep(in) ==
    LET cmd == Trim(in.line)
        songNum == ToInt(Substring(cmd, 6))
    IN  /\ input' = in
        /\ IF ~in.available
           THEN /\ cmds' = << >>
                /\ pc' = "mode"
                /\ UNCHANGED <<currentMode, songArg>>
           ELSE IF StartsWith(cmd, WriteCmd(<< >>))
           THEN IF ValidSongNumber(songNum)
                THEN /\ currentMode' = WRITE_MODE
                     /\ songArg' = songNum
                     /\ cmds' = <<Println("place tag to write")>>
                     /\ pc' = "write_poll"
                ELSE /\ cmds' = <<Println("error: number must be 1-99")>>
                     /\ pc' = "mode"
                     /\ UNCHANGED <<currentMode, songArg>>
           ELSE IF cmd = <<"r", "e", "a", "d">>
           THEN /\ currentMode' = READ_MODE
                /\ cmds' = <<Println("place tag to read")>>
                /\ pc' = "read_poll"
                /\ UNCHANGED songArg
           ELSE IF cmd = <<"p", "l", "a", "y", "m", "o", "d", "e">>
           THEN /\ currentMode' = PLAY_MODE
                /\ cmds' = <<Println("switched to play mode")>>
                /\ pc' = "mode"
                /\ UNCHANGED songArg
           ELSE /\ cmds' = IF Len(cmd) > 0 THEN <<Println("commands")>>
                           ELSE << >>
                /\ pc' = "mode"
                /\ UNCHANGED <<currentMode, songArg>>

HandleSerialCommands ==
    /\ pc = "serial"
    /\ \E in \in {NoInput} \cup [available : {TRUE}, line : SerialLines] :
          /\ in.available => lines < plan.lines
          /\ lines' = IF in.available THEN lines + 1 ELSE lines
          /\ SerialStep(in)
    /\ UNCHANGED <<state, buttons, led, clock, tag, pages, polls, edges, presses,
                   moves, loops, plan,
                   elapsed>>

\* The retry loop returning after the timeout with currentMode left as it is
RetryLoopKeepsMode(failed, found, next) ==
    /\ clock' = Advance(clock, failed * CMD_POLL_TIMEOUT)
    /\ elapsed' = Tick(elapsed, failed * CMD_POLL_TIMEOUT)
    /\ input' = NoInput
    /\ cmds' = [i \in 1..failed |-> Cmd("poll", CMD_POLL_TIMEOUT)]
                 \o (IF failed < MAX_ATTEMPTS
                     THEN <<Cmd("poll", CMD_POLL_TIMEOUT)>>
                     ELSE <<Println("timeout")>>)
    /\ pc' = IF failed < MAX_ATTEMPTS THEN found ELSE next
    /\ UNCHANGED <<currentMode, songArg>>

\* The retry loop of writeSongNumber / readSongTag: `failed` attempts time out,
\* then the tag is found, or all MAX_ATTEMPTS attempts fail.
RetryLoop(failed, found, next) ==
    /\ clock' = Advance(clock, failed * CMD_POLL_TIMEOUT)
    /\ elapsed' = Tick(elapsed, failed * CMD_POLL_TIMEOUT)
    /\ input' = NoInput
    /\ IF failed < MAX_ATTEMPTS
       THEN /\ cmds' = [i \in 1..(failed + 1) |-> Cmd("poll", CMD_POLL_TIMEOUT)]
            /\ pc' = found
            /\ UNCHANGED <<currentMode, songArg>>
       ELSE /\ cmds' = [i \in 1..failed |-> Cmd("poll", CMD_POLL_TIMEOUT)]
                         \o <<Println("timeout")>>
            /\ pc' = next
            /\ currentMode' = PLAY_MODE
            /\ songArg' = 0

\* writeSongNumber(), lines 185-194
WritePoll ==
    /\ pc = "write_poll"
    /\ \E failed \in AttemptCases :
          /\ failed < MAX_ATTEMPTS => TRUE \in DetectOutcomes
          /\ RetryLoop(failed, "write_page", "mode")
    /\ UNCHANGED <<state, buttons, led, tag, pages, polls, edges, presses, moves,
                   lines, loops, plan>>

\* writeSongNumber() switching playback to the number it has written
WritePageAndPlay ==
    /\ pc = "write_page"
    /\ \E success \in BOOLEAN :
          LET p == IF success THEN HandleNewTag(Playback, songArg)
                   ELSE Playback
          IN  /\ pages' = IF success
                          THEN [pages EXCEPT ![tag] = SongRecord(songArg)]
                          ELSE pages
              /\ cmds' = <<Cmd("writePage", songArg),
                           Println(IF success THEN "written"
                                   ELSE "write failed")>> \o p.cmds
              /\ isSongPlaying' = p.isSongPlaying
              /\ currentTrack' = p.currentTrack
              /\ led' = p.led
    /\ clock' = Advance(clock, WRITE_SETTLE_DELAY)
    /\ elapsed' = Tick(elapsed, WRITE_SETTLE_DELAY)
    /\ currentMode' = PLAY_MODE
    /\ pc' = "mode"
    /\ input' = NoInput
    /\ songArg' = 0
    /\ UNCHANGED <<lastUID, lastUIDLength, lastTagDetectionTime,
                   lastNFCCheckTime, isTagPresent, currentVolume, buttons, tag,
                   polls, edges, presses, moves, lines, loops, plan>>

\* writeSongNumber(), lines 196-203, and the return to handleSerialCommands
WritePage ==
    /\ pc = "write_page"
    /\ \E success \in BOOLEAN :
          /\ pages' = IF success THEN [pages EXCEPT ![tag] = SongRecord(songArg)]
                      ELSE pages
          /\ cmds' = <<Cmd("writePage", songArg),
                       Println(IF success THEN "written" ELSE "write failed")>>
    /\ clock' = Advance(clock, WRITE_SETTLE_DELAY)
    /\ elapsed' = Tick(elapsed, WRITE_SETTLE_DELAY)
    /\ currentMode' = PLAY_MODE
    /\ pc' = "mode"
    /\ input' = NoInput
    /\ songArg' = 0
    /\ UNCHANGED <<state, buttons, led, tag, polls, edges, presses, moves,
                   lines, loops, plan>>

\* readSongTag(), lines 207-217
ReadPoll ==
    /\ pc = "read_poll"
    /\ \E failed \in AttemptCases :
          /\ failed < MAX_ATTEMPTS => TRUE \in DetectOutcomes
          /\ RetryLoop(failed, "read_page", "mode")
    /\ UNCHANGED <<state, buttons, led, tag, pages, polls, edges, presses, moves,
                   lines, loops, plan>>

\* readSongTag() handing the number it read to handleNewTag
ReadPageAndPlay ==
    /\ pc = "read_page"
    /\ \E success \in BOOLEAN :
          LET songNum == ReadSongNumberFromTag(success, pages[tag])
              p == HandleNewTag([Playback EXCEPT
                                    !.cmds = <<Cmd("readSong", songNum)>>],
                                songNum)
          IN  /\ cmds' = p.cmds
              /\ isSongPlaying' = p.isSongPlaying
              /\ currentTrack' = p.currentTrack
              /\ led' = p.led
    /\ currentMode' = PLAY_MODE
    /\ pc' = "mode"
    /\ input' = NoInput
    /\ UNCHANGED <<lastUID, lastUIDLength, lastTagDetectionTime,
                   lastNFCCheckTime, isTagPresent, currentVolume, buttons, clock,
                   songArg, tag, pages, polls, edges, presses, moves, lines,
                   loops, plan,
                   elapsed>>

\* readSongTag(), lines 219-220, and the return to handleSerialCommands
ReadPage ==
    /\ pc = "read_page"
    /\ \E success \in BOOLEAN :
          LET songNum == ReadSongNumberFromTag(success, pages[tag])
          IN  cmds' = <<Cmd("readSong", songNum),
                        Println(IF songNum # -1 THEN "song number"
                                     ELSE "tag not readable")>>
    /\ currentMode' = PLAY_MODE
    /\ pc' = "mode"
    /\ input' = NoInput
    /\ UNCHANGED <<state, buttons, led, clock, songArg, tag, pages, polls, edges,
                   presses, moves, lines, loops, plan,
                   elapsed>>

\* ------------------------------------------------------------ play mode
\* loop(), line 309: the test of currentMode
ModeTest ==
    /\ pc = "mode"
    /\ pc' = IF currentMode = PLAY_MODE THEN "buttons" ELSE "delay"
    /\ cmds' = << >>
    /\ input' = NoInput
    /\ UNCHANGED <<state, buttons, currentMode, led, clock, songArg, tag, pages,
                   polls, edges, presses, moves, lines, loops, plan,
                   elapsed>>

\* One button of checkVolumeButtons() without the debounce window
PressAcceptedNoDebounce(pressed, lastState, now, lastPress) ==
    pressed /\ ~lastState

\* One button of checkVolumeButtons(): whether the sample is accepted as a press
PressAccepted(pressed, lastState, now, lastPress) ==
    pressed /\ ~lastState /\ Elapsed(now, lastPress) > BUTTON_DEBOUNCE_DELAY

\* checkVolumeButtons() with the levels sampled on the two pins
CheckVolumeButtons ==
    /\ pc = "buttons"
    /\ \E upPressed \in BOOLEAN, downPressed \in BOOLEAN :
          /\ (upPressed \/ downPressed) => presses < plan.presses
          /\ presses' = IF upPressed \/ downPressed THEN presses + 1
                        ELSE presses
          /\ LET now == clock
                 upHit == PressAccepted(upPressed, lastUpState, now, lastUpPress)
                 v1 == IF upHit THEN AdjustVolume(currentVolume, 1)
                       ELSE currentVolume
                 downHit == PressAccepted(downPressed, lastDownState, now,
                                          lastDownPress)
                 v2 == IF downHit THEN AdjustVolume(v1, -1) ELSE v1
             IN  /\ currentVolume' = v2
                 /\ lastUpPress' = IF upHit THEN now ELSE lastUpPress
                 /\ lastDownPress' = IF downHit THEN now ELSE lastDownPress
                 /\ elapsed' = [elapsed EXCEPT
                                   !.up = IF upHit THEN 0 ELSE @,
                                   !.down = IF downHit THEN 0 ELSE @]
                 /\ lastUpState' = upPressed
                 /\ lastDownState' = downPressed
                 /\ lastUpEdge' = IF upPressed /\ ~lastUpState THEN now
                                  ELSE lastUpEdge
                 /\ lastDownEdge' = IF downPressed /\ ~lastDownState THEN now
                                    ELSE lastDownEdge
                 /\ cmds' = (IF upHit THEN <<Cmd("volume", v1)>> ELSE << >>)
                            \o (IF downHit THEN <<Cmd("volume", v2)>> ELSE << >>)
    /\ pc' = "nfc"
    /\ input' = NoInput
    /\ UNCHANGED <<lastUID, lastUIDLength, lastTagDetectionTime,
                   lastNFCCheckTime, isTagPresent, isSongPlaying, currentTrack,
                   currentMode, led, clock, songArg, tag, pages, polls, moves,
                   lines, loops, plan>>

\* checkNFCTag() reading the record again on every detection while nothing
\* is playing
TagDetectedRetries(readOk) ==
    LET uid == TagUid[tag]
        uidLength == Len(uid)
        isNewTag == \/ ~isTagPresent
                    \/ ~UidsMatch(uid, lastUID, uidLength)
                    \/ ~isSongPlaying
        songNumber == ReadSongNumberFromTag(readOk, pages[tag])
        p == HandleNewTag([Playback EXCEPT
                               !.cmds = <<Cmd("readSong", songNumber)>>],
                          songNumber)
    IN  /\ lastTagDetectionTime' = clock
        /\ clock' = clock
        /\ elapsed' = [elapsed EXCEPT !.detection = 0, !.poll = 0]
        /\ polled' = uid
        /\ prevEvent' = event
        /\ isTagPresent' = TRUE
        /\ isSongPlaying' = IF isNewTag THEN p.isSongPlaying ELSE isSongPlaying
        /\ currentTrack' = IF isNewTag THEN p.currentTrack ELSE currentTrack
        /\ led' = IF isNewTag THEN p.led ELSE led
        /\ cmds' = <<Cmd("poll", PLAY_POLL_TIMEOUT)>>
                     \o (IF isNewTag THEN p.cmds ELSE << >>)
        /\ lastUID' = IF isNewTag THEN Memcpy(lastUID, uid, uidLength)
                      ELSE lastUID
        /\ lastUIDLength' = IF isNewTag THEN uidLength ELSE lastUIDLength
        /\ event' = IF ~isTagPresent \/ ~UidsMatch(uid, lastUID, uidLength)
                    THEN "new" ELSE "same"

\* checkNFCTag() when readPassiveTargetID finds the tag; readOk is the outcome
\* of the page read that handleNewTag makes
TagDetected(readOk) ==
    LET uid == TagUid[tag]
        uidLength == Len(uid)
        isNewTag == ~isTagPresent \/ ~UidsMatch(uid, lastUID, uidLength)
        songNumber == ReadSongNumberFromTag(readOk, pages[tag])
        p == HandleNewTag([Playback EXCEPT
                               !.cmds = <<Cmd("readSong", songNumber)>>],
                          songNumber)
    IN  /\ lastTagDetectionTime' = clock
        /\ clock' = clock
        /\ elapsed' = [elapsed EXCEPT !.detection = 0, !.poll = 0]
        /\ polled' = uid
        /\ prevEvent' = event
        /\ isTagPresent' = TRUE
        /\ IF isNewTag
           THEN /\ isSongPlaying' = p.isSongPlaying
                /\ currentTrack' = p.currentTrack
                /\ led' = p.led
                /\ cmds' = <<Cmd("poll", PLAY_POLL_TIMEOUT)>> \o p.cmds
                /\ lastUID' = Memcpy(lastUID, uid, uidLength)
                /\ lastUIDLength' = uidLength
                /\ event' = "new"
           ELSE /\ cmds' = <<Cmd("poll", PLAY_POLL_TIMEOUT)>>
                /\ event' = "same"
                /\ UNCHANGED <<isSongPlaying, currentTrack, led, lastUID,
                               lastUIDLength>>

\* checkNFCTag() stopping playback as soon as a poll finds no tag
TagNotDetectedStops ==
    LET p == StopSong([Playback EXCEPT
                          !.cmds = <<Cmd("poll", PLAY_POLL_TIMEOUT)>>])
    IN  /\ clock' = Advance(clock, PLAY_POLL_TIMEOUT)
        /\ elapsed' = Tick([elapsed EXCEPT !.poll = 0], PLAY_POLL_TIMEOUT)
        /\ isTagPresent' = FALSE
        /\ prevEvent' = event
        /\ event' = "absent"
        /\ isSongPlaying' = p.isSongPlaying
        /\ currentTrack' = p.currentTrack
        /\ led' = p.led
        /\ cmds' = p.cmds
        /\ UNCHANGED <<polled, lastUID, lastUIDLength, lastTagDetectionTime>>

\* checkNFCTag() when readPassiveTargetID times out
TagNotDetected ==
    /\ clock' = Advance(clock, PLAY_POLL_TIMEOUT)
    /\ elapsed' = Tick([elapsed EXCEPT !.poll = 0], PLAY_POLL_TIMEOUT)
    /\ isTagPresent' = FALSE
    /\ prevEvent' = event
    /\ event' = "absent"
    /\ UNCHANGED polled
    /\ cmds' = <<Cmd("poll", PLAY_POLL_TIMEOUT)>>
    /\ UNCHANGED <<lastUID, lastUIDLength, lastTagDetectionTime, isSongPlaying,
                   currentTrack, led>>

CheckNFCTag ==
    \E tagDetected \in DetectOutcomes :
        IF tagDetected THEN \E readOk \in BOOLEAN : TagDetected(readOk)
        ELSE TagNotDetected

\* loop(), lines 310 and 312-315: the poll if it is due
PollIfDue ==
    /\ pc = "nfc"
    /\ LET now == clock
       IN  IF Elapsed(now, lastNFCCheckTime) >= NFC_CHECK_INTERVAL
           THEN /\ CheckNFCTag
                /\ lastNFCCheckTime' = now
           ELSE /\ cmds' = << >>
                /\ UNCHANGED <<lastUID, lastUIDLength, lastTagDetectionTime,
                               lastNFCCheckTime, isTagPresent, isSongPlaying,
                               currentTrack, led, clock, polls, elapsed>>
    /\ pc' = "grace"
    /\ input' = NoInput
    /\ UNCHANGED <<currentVolume, buttons, currentMode, songArg, tag, pages,
                   edges, presses, moves, lines, loops, plan>>

\* handleGracePeriod() comparing with >= instead of >
GraceExpiredInclusive(now) ==
    /\ ~isTagPresent
    /\ isSongPlaying
    /\ Elapsed(now, lastTagDetectionTime) >= TAG_GRACE_PERIOD

\* handleGracePeriod()
GraceExpired(now) ==
    /\ ~isTagPresent
    /\ isSongPlaying
    /\ Elapsed(now, lastTagDetectionTime) > TAG_GRACE_PERIOD

HandleGracePeriod ==
    /\ pc = "grace"
    /\ LET p == IF GraceExpired(clock) THEN StopSong(Playback) ELSE Playback
       IN  /\ isSongPlaying' = p.isSongPlaying
           /\ currentTrack' = p.currentTrack
           /\ led' = p.led
           /\ cmds' = p.cmds
    /\ pc' = "delay"
    /\ input' = NoInput
    /\ UNCHANGED <<lastUID, lastUIDLength, lastTagDetectionTime,
                   lastNFCCheckTime, isTagPresent, currentVolume, buttons,
                   currentMode, clock, songArg, tag, pages, polls, edges, presses,
                   moves, lines, loops, plan,
                   elapsed>>

\* loop(), line 319: delay(10), then the next iteration
Delay ==
    /\ pc = "delay"
    /\ \E d \in LoopDelays :
          /\ clock' = Advance(clock, d)
          /\ elapsed' = Tick(elapsed, d)
    /\ loops + 1 < plan.loops
    /\ loops' = loops + 1
    /\ pc' = "serial"
    /\ cmds' = << >>
    /\ input' = NoInput
    /\ UNCHANGED <<state, buttons, currentMode, led, songArg, tag, pages, polls,
                   edges, presses, moves, lines, plan>>

Next ==
    \/ HandleSerialCommands
    \/ WritePoll
    \/ WritePage
    \/ ReadPoll
    \/ ReadPage
    \/ ModeTest
    \/ CheckVolumeButtons
    \/ PollIfDue
    \/ HandleGracePeriod
    \/ Delay
    \/ PlaceTag
    \/ RemoveTag

Spec == Init /\ [][Next]_vars

\* The thread of control does not halt inside writeSongNumber or readSongTag.
SpecLive ==
    /\ Spec
    /\ WF_vars(WritePoll) /\ WF_vars(WritePage)
    /\ WF_vars(ReadPoll) /\ WF_vars(ReadPage)

\* The loop followed across the wraparound of millis().
SpecWrap == InitWrap /\ [][Next]_vars

\* The loop followed from the states in which the volume is at a limit.
SpecSaturated == InitSaturated /\ [][Next]_vars

TypeOK ==
    /\ currentMode \in {PLAY_MODE, WRITE_MODE, READ_MODE}
    /\ isTagPresent \in BOOLEAN /\ isSongPlaying \in BOOLEAN
    /\ currentTrack \in 0..MAX_SONG
    /\ lastUIDLength \in 0..UID_BUFFER_LEN
    /\ tag \in Tags \cup {NoTag}
    /\ currentVolume \in MIN_VOLUME..MAX_VOLUME

\* ============================================================ claims
HasOp(cs, op) == \E i \in 1..Len(cs) : cs[i].op = op
HasCmd(cs, op, arg) == \E i \in 1..Len(cs) : cs[i].op = op /\ cs[i].arg = arg
HasText(cs, text) == \E i \in 1..Len(cs) : cs[i].op = "print" /\ cs[i].text = text
CountOp(cs, op) == Cardinality({i \in 1..Len(cs) : cs[i].op = op})

\* the UID the firmware has on record
RecordedUid == SubSeq(lastUID, 1, lastUIDLength)

\* C1: in play mode, when a poll delivers UID A and the next poll (none of
\* them empty in between) delivers a UID B that differs from A in length or in
\* some byte, the second poll is handled as a new tag and B becomes the UID
\* on record.
C1_DifferentUidIsNewTag ==
    [][ ( /\ pc = "nfc"
          /\ event \in {"new", "same"}
          /\ event' \in {"new", "same"}
          /\ HasOp(cmds', "poll")
          /\ polled' # polled )
        => ( /\ event' = "new"
             /\ HasOp(cmds', "readSong")
             /\ RecordedUid' = polled' ) ]_vars

\* the last step made a readSongNumberFromTag call that returned n
ReadSong(cs, n) == HasCmd(cs, "readSong", n)

\* C2 as claimed: while a track is playing and until 2000 ms have passed
\* since the tag's last detection, no step issues a stop command unless it
\* detects a different UID; in particular neither a missed poll, nor a grace
\* check, nor the poll that detects the same tag again issues one.
C2_NoStopWithinGrace ==
    [][ ( /\ isSongPlaying
          /\ polled' = polled
          /\ Elapsed(clock', lastTagDetectionTime) <= TAG_GRACE_PERIOD )
        => ~HasOp(cmds', "stop") ]_vars

\* C2 as amended: the same, except that the poll that detects the tag again
\* stops playback when its read of the song record fails or yields another
\* number than the track that is playing.
C2_NoStopWithinGraceIfRecordAgrees ==
    [][ ( /\ isSongPlaying
          /\ polled' = polled
          /\ Elapsed(clock', lastTagDetectionTime) <= TAG_GRACE_PERIOD
          /\ HasOp(cmds', "readSong") => ReadSong(cmds', currentTrack) )
        => ~HasOp(cmds', "stop") ]_vars

\* C2 witness: the tag was missed by a poll and the next poll has detected it
\* again, its record agreeing with the track that plays on without a stop.
C2_Witness ==
    /\ pc = "grace"
    /\ prevEvent = "absent"
    /\ event = "new"
    /\ RecordedUid = polled
    /\ isSongPlaying
    /\ ReadSong(cmds, currentTrack)
    /\ ~HasOp(cmds, "stop")
    /\ ~HasOp(cmds, "play")

\* C3: when the tag does not come back, playback is stopped exactly once, by
\* the first grace check made more than 2000 ms after the last detection and
\* not before: (a) a grace check stops only when the tag is absent and more
\* than 2000 ms have passed, and then issues one stop; (b) no track is still
\* playing after a grace check made more than 2000 ms after the last
\* detection; (c) a step that detects no tag issues no other stop and never
\* starts playback, so no second stop follows while the tag stays absent.
C3_OneStopAfterGrace ==
    /\ [][ (pc = "grace" /\ HasOp(cmds', "stop"))
           => ( /\ ~isTagPresent
                /\ isSongPlaying
                /\ Elapsed(clock, lastTagDetectionTime) > TAG_GRACE_PERIOD
                /\ CountOp(cmds', "stop") = 1
                /\ ~isSongPlaying' ) ]_vars
    /\ [](pc = "delay" /\ isSongPlaying
          => Elapsed(clock, lastTagDetectionTime) <= TAG_GRACE_PERIOD)
    /\ [][ (lastTagDetectionTime' = lastTagDetectionTime /\ pc # "grace")
           => (~HasOp(cmds', "stop") /\ (isSongPlaying' => isSongPlaying)) ]_vars
    /\ [][ ~isSongPlaying => ~HasOp(cmds', "stop") ]_vars

\* C3 witness: the grace check has just stopped the track of an absent tag.
C3_Witness ==
    /\ pc = "delay"
    /\ event = "absent"
    /\ ~isTagPresent
    /\ ~isSongPlaying
    /\ cmds = <<Cmd("stop", 0), Cmd("led", 0)>>
    /\ Elapsed(clock, lastTagDetectionTime) > TAG_GRACE_PERIOD

\* positions of the commands `op` in a step's calls
Positions(cs, op) == {i \in 1..Len(cs) : cs[i].op = op}

\* Every play command of cs is issued while nothing is playing, given that
\* `playing` holds before cs and that play and stop set and clear it.
RECURSIVE PlaysOnlyWhenStopped(_, _)
PlaysOnlyWhenStopped(playing, cs) ==
    IF cs = << >> THEN TRUE
    ELSE IF Head(cs).op = "play"
         THEN ~playing /\ PlaysOnlyWhenStopped(TRUE, Tail(cs))
    ELSE IF Head(cs).op = "stop" THEN PlaysOnlyWhenStopped(FALSE, Tail(cs))
    ELSE PlaysOnlyWhenStopped(playing, Tail(cs))

\* C4: when a new-tag event reads a valid song number n while another track
\* is playing, a stop command is issued before the play command for n; and a
\* play command is only ever issued while isSongPlaying is false, so that no
\* two play commands follow each other without a stop in between.
C4_StopBeforePlay ==
    /\ [][ \A n \in MIN_SONG..MAX_SONG :
             ( /\ pc = "nfc"
               /\ isSongPlaying
               /\ currentTrack # n
               /\ ReadSong(cmds', n) )
             => ( /\ HasCmd(cmds', "play", n)
                  /\ \A j \in Positions(cmds', "play") :
                       \E i \in Positions(cmds', "stop") : i < j ) ]_vars
    /\ [][ PlaysOnlyWhenStopped(isSongPlaying, cmds') ]_vars
    /\ [][ (HasOp(cmds', "play") => isSongPlaying')
           /\ (isSongPlaying' /\ ~isSongPlaying => HasOp(cmds', "play")) ]_vars

\* C4 witness: a new tag's track has replaced another one, stop before play.
C4_Witness ==
    /\ event = "new"
    /\ isSongPlaying
    /\ \E i \in Positions(cmds, "stop") :
         \E j \in Positions(cmds, "play") :
            i < j /\ cmds[j].arg = currentTrack

\* C5: a poll that detects a tag again after it was missed, and reads from it
\* the number of the track that is playing, issues neither a stop nor a play
\* command and leaves isSongPlaying and currentTrack as they are.
C5_SameTrackIsNoOp ==
    [][ ( /\ pc = "nfc"
          /\ isSongPlaying
          /\ ~isTagPresent
          /\ ReadSong(cmds', currentTrack) )
        => ( /\ ~HasOp(cmds', "stop")
             /\ ~HasOp(cmds', "play")
             /\ ~HasOp(cmds', "led")
             /\ UNCHANGED <<isSongPlaying, currentTrack, led>> ) ]_vars

\* C5 witness: the tag came back after one or more missed polls and its
\* track is still the one playing.
C5_Witness ==
    /\ pc = "grace"
    /\ event = "new"
    /\ prevEvent = "absent"
    /\ isSongPlaying
    /\ currentTrack = ReadSongNumberFromTag(TRUE, pages[tag])
    /\ cmds = <<Cmd("poll", PLAY_POLL_TIMEOUT), Cmd("readSong", currentTrack)>>

UpAccepted == pc = "buttons" /\ lastUpPress' # lastUpPress
DownAccepted == pc = "buttons" /\ lastDownPress' # lastDownPress

\* C6 as claimed: an accepted up press at level 30 leaves the level at 30 and
\* issues no volume-set command; an accepted down press at level 0 leaves the
\* level at 0.
C6_NoCommandWhenSaturated ==
    [][ /\ (UpAccepted /\ ~DownAccepted /\ currentVolume = MAX_VOLUME)
           => (currentVolume' = MAX_VOLUME /\ ~HasOp(cmds', "volume"))
        /\ (DownAccepted /\ ~UpAccepted /\ currentVolume = MIN_VOLUME)
           => currentVolume' = MIN_VOLUME ]_vars

\* C6 as amended: an accepted up press at level 30 leaves the level at 30 and
\* issues one volume-set command, carrying 30; an accepted down press at
\* level 0 leaves the level at 0 and issues one carrying 0.
C6_SaturatedLevelIsResent ==
    [][ /\ (UpAccepted /\ ~DownAccepted /\ currentVolume = MAX_VOLUME)
           => (currentVolume' = MAX_VOLUME
               /\ cmds' = <<Cmd("volume", MAX_VOLUME)>>)
        /\ (DownAccepted /\ ~UpAccepted /\ currentVolume = MIN_VOLUME)
           => (currentVolume' = MIN_VOLUME
               /\ cmds' = <<Cmd("volume", MIN_VOLUME)>>) ]_vars

\* C6 witness: the first press since the level reached 30 was an up press,
\* has been accepted and has sent the level 30 again.
C6_Witness ==
    /\ pc = "nfc"
    /\ presses = 1
    /\ lastUpPress = clock
    /\ currentVolume = MAX_VOLUME
    /\ cmds = <<Cmd("volume", MAX_VOLUME)>>

\* C7: the volume level is always within MIN_VOLUME..MAX_VOLUME, and so is
\* the level of every volume-set command.
C7_VolumeInRange ==
    /\ currentVolume >= MIN_VOLUME
    /\ currentVolume <= MAX_VOLUME
    /\ \A i \in Positions(cmds, "volume") :
          cmds[i].arg >= MIN_VOLUME /\ cmds[i].arg <= MAX_VOLUME

\* C7 witness: the first press since the level reached 0 was a down press,
\* has been accepted and the level sent is 0.
C7_Witness ==
    /\ pc = "nfc"
    /\ presses = 1
    /\ lastDownPress = clock
    /\ currentVolume = MIN_VOLUME
    /\ cmds = <<Cmd("volume", MIN_VOLUME)>>

\* A raw inactive-to-active transition is sampled in this step, at most
\* BUTTON_DEBOUNCE_DELAY after the previous one of the same button.
UpEdgeAgain ==
    /\ pc = "buttons" /\ lastUpState' /\ ~lastUpState
    /\ lastUpEdge >= 0 /\ Elapsed(clock, lastUpEdge) <= BUTTON_DEBOUNCE_DELAY
DownEdgeAgain ==
    /\ pc = "buttons" /\ lastDownState' /\ ~lastDownState
    /\ lastDownEdge >= 0 /\ Elapsed(clock, lastDownEdge) <= BUTTON_DEBOUNCE_DELAY

\* Whether a button's sample is accepted depends on that button alone.
ButtonsIndependent ==
    pc = "buttons" =>
       /\ UpAccepted <=> ( /\ lastUpState' /\ ~lastUpState
                           /\ Elapsed(clock, lastUpPress) > BUTTON_DEBOUNCE_DELAY )
       /\ DownAccepted <=> ( /\ lastDownState' /\ ~lastDownState
                             /\ Elapsed(clock, lastDownPress)
                                   > BUTTON_DEBOUNCE_DELAY )

\* C8 as claimed: of two transitions of one button sampled within 200 ms of
\* each other the first was accepted and the second is suppressed, and the
\* other button is unaffected.
C8_FirstAcceptedSecondSuppressed ==
    [][ /\ UpEdgeAgain => (lastUpPress = lastUpEdge /\ ~UpAccepted)
        /\ DownEdgeAgain => (lastDownPress = lastDownEdge /\ ~DownAccepted)
        /\ ButtonsIndependent ]_vars

\* C8 as amended: of two transitions of one button sampled within 200 ms of
\* each other at most one is accepted: if the first was accepted the second
\* is suppressed (the first is itself suppressed when it comes within 200 ms
\* of an earlier accepted press); the other button is unaffected.
C8_AtMostOneAccepted ==
    [][ /\ (UpEdgeAgain /\ lastUpPress = lastUpEdge) => ~UpAccepted
        /\ (DownEdgeAgain /\ lastDownPress = lastDownEdge) => ~DownAccepted
        /\ ButtonsIndependent ]_vars

\* C8 witness: an up press was accepted, the button was released and its next
\* transition, sampled within 200 ms, has just been suppressed.
C8_Witness ==
    /\ pc = "nfc"
    /\ lastUpState
    /\ lastUpEdge = clock
    /\ lastUpPress < lastUpEdge
    /\ lastUpPress > 0
    /\ Elapsed(lastUpEdge, lastUpPress) <= BUTTON_DEBOUNCE_DELAY
    /\ cmds = << >>

\* C9: while currentMode is WRITE_MODE or READ_MODE the loop is not at the
\* volume-button poll, the play-mode tag poll or the grace check, and no step
\* taken in, into or out of these modes changes isSongPlaying, currentTrack,
\* isTagPresent, the UID on record or currentVolume, or issues a play, stop or
\* volume command, also with a tag on the reader.
C9_ModeExclusivity ==
    /\ [](currentMode # PLAY_MODE => pc \notin {"buttons", "nfc", "grace"})
    /\ [][ (currentMode # PLAY_MODE \/ currentMode' # PLAY_MODE)
           => /\ UNCHANGED <<isSongPlaying, currentTrack, isTagPresent, lastUID,
                             lastUIDLength, currentVolume>>
              /\ ~HasOp(cmds', "play")
              /\ ~HasOp(cmds', "stop")
              /\ ~HasOp(cmds', "volume") ]_vars

\* C9 witness: the read command has found, during playback, the tag that is
\* on the reader and is about to read its page.
C9_Witness ==
    /\ currentMode = READ_MODE
    /\ pc = "read_page"
    /\ tag # NoTag
    /\ isSongPlaying
    /\ isTagPresent

\* The command line as handleSerialCommands sees it, and its parts.
CommandText(in) == Trim(in.line)
IsWrite(c) == Len(c) > Len(W) /\ SubSeq(c, 1, Len(W) + 1) = W \o <<" ">>
Argument(c) == SubSeq(c, Len(W) + 2, Len(c))
AllDigits(a) == a # << >> /\ \A i \in 1..Len(a) : IsDigit(a[i])
NoDigits(a) == \A i \in 1..Len(a) : ~IsDigit(a[i])

RECURSIVE DecimalValue(_)
DecimalValue(a) ==
    IF a = << >> THEN 0
    ELSE 10 * DecimalValue(SubSeq(a, 1, Len(a) - 1)) + DigitValue(a[Len(a)])

\* a write command whose argument is a decimal number outside 1..99 or text
\* without any digit
InvalidWrite(c) ==
    /\ IsWrite(c)
    /\ \/ NoDigits(Argument(c))
       \/ AllDigits(Argument(c)) /\ ( \/ DecimalValue(Argument(c)) < 1
                                      \/ DecimalValue(Argument(c)) > 99 )

\* a line that is none of the commands
Unrecognized(c) ==
    /\ c # << >>
    /\ ~IsWrite(c)
    /\ c # <<"r", "e", "a", "d">>
    /\ c # <<"p", "l", "a", "y", "m", "o", "d", "e">>

\* C10: a write command whose number is outside 1..99 or not a number, and
\* any unrecognized command, is answered with one message and nothing else:
\* no reader poll, no page write, and currentMode, the playback, presence and
\* volume state, the LED, the tags' pages and the clock stay as they are.
C10_InvalidInputChangesNothing ==
    [][ ( /\ pc = "serial"
          /\ input'.available
          /\ \/ InvalidWrite(CommandText(input'))
             \/ Unrecognized(CommandText(input')) )
        => /\ cmds' = <<Println(
                            IF InvalidWrite(CommandText(input'))
                            THEN "error: number must be 1-99" ELSE "commands")>>
           /\ pc' = "mode"
           /\ UNCHANGED <<currentMode, state, buttons, led, clock, songArg,
                          pages>> ]_vars

\* C10 witness: `write 100` arrived during playback and was answered with
\* the error message.
C10_Witness ==
    /\ pc = "mode"
    /\ input.available
    /\ CommandText(input) = WriteCmd(<<"1", "0", "0">>)
    /\ cmds = <<Println("error: number must be 1-99")>>
    /\ currentMode = PLAY_MODE
    /\ isSongPlaying
    /\ tag # NoTag

\* C11: the record that writeSongNumber puts on a tag for a song number n in
\* 1..99 decodes to n, and after every write operation that found a tag and
\* whose page write succeeded, page 4 of that tag decodes to the number the
\* command gave.
C11_RecordRoundTrip ==
    /\ \A n \in 1..99 : ReadSongNumberFromTag(TRUE, SongRecord(n)) = n
    /\ [][ (pc = "write_page" /\ HasText(cmds', "written"))
           => /\ songArg \in 1..99
              /\ ReadSongNumberFromTag(TRUE, pages'[tag]) = songArg ]_vars

\* C11 witness: 99 has been written to the blank tag and the play-mode poll
\* that came next read 99 from it.
C11_Witness ==
    /\ tag = "D"
    /\ pages[tag] # InitialPages[tag]
    /\ input = NoInput
    /\ HasCmd(cmds, "readSong", 99)

\* C12: in every state a current track is set (currentTrack is not 0) exactly
\* when isSongPlaying is true.
C12_TrackSetIffPlaying == (currentTrack # 0) <=> isSongPlaying

\* C12 witness: a track has been stopped by the grace check and none is set.
C12_Witness ==
    /\ pc = "delay"
    /\ HasOp(cmds, "stop")
    /\ ~isSongPlaying
    /\ currentTrack = 0
    /\ lastUIDLength > 0

\* C13: a play-mode poll that detects the UID the previous play-mode poll
\* detected is handled as the same tag: no song record is read, no play or
\* stop command is issued, playback and the UID on record stay as they are,
\* the tag stays present and lastTagDetectionTime is refreshed.
C13_RepeatedUidIsSameTag ==
    [][ ( /\ pc = "nfc"
          /\ HasOp(cmds', "poll")
          /\ event \in {"new", "same"}
          /\ event' \in {"new", "same"}
          /\ polled' = polled )
        => ( /\ event' = "same"
             /\ cmds' = <<Cmd("poll", PLAY_POLL_TIMEOUT)>>
             /\ UNCHANGED <<lastUID, lastUIDLength, isSongPlaying, currentTrack,
                            led>>
             /\ isTagPresent'
             /\ lastTagDetectionTime' = clock' ) ]_vars

\* C13 witness: the second of two successive detections of one UID during
\* playback, the first of which was a new tag.
C13_Witness ==
    /\ pc = "grace"
    /\ prevEvent = "new"
    /\ event = "same"
    /\ polled = RecordedUid
    /\ isSongPlaying
    /\ cmds = <<Cmd("poll", PLAY_POLL_TIMEOUT)>>

\* the retry loop of a write or read operation has just run
RetryLoopRan == pc \in {"write_poll", "read_poll"} /\ pc' # pc

\* C14: a write or read operation polls the reader at most 50 times; it goes
\* on to the tag's page after the first successful poll, or it ends after the
\* 50th failed poll with the timeout message and without a page write; it
\* always ends, and currentMode is PLAY_MODE when handleSerialCommands has
\* returned, hence wherever loop() tests it.
C14_OperationsEndInPlayMode ==
    /\ [](pc \notin {"write_poll", "write_page", "read_poll", "read_page"}
             => currentMode = PLAY_MODE)
    /\ [][ RetryLoopRan
           => /\ CountOp(cmds', "poll") <= 50
              /\ ~HasOp(cmds', "writePage")
              /\ \/ /\ pc' = (IF pc = "write_poll" THEN "write_page"
                              ELSE "read_page")
                    /\ cmds'[Len(cmds')].op = "poll"
                    /\ ~HasOp(cmds', "print")
                 \/ /\ pc' = "mode"
                    /\ CountOp(cmds', "poll") = 50
                    /\ cmds'[Len(cmds')] = Println("timeout")
                    /\ currentMode' = PLAY_MODE ]_vars
    /\ (currentMode # PLAY_MODE) ~> (pc = "mode" /\ currentMode = PLAY_MODE)

\* C14 witness: a write operation has ended after 50 failed polls.
C14_Witness ==
    /\ pc = "mode"
    /\ currentMode = PLAY_MODE
    /\ songArg = 0
    /\ CountOp(cmds, "poll") = 50
    /\ HasText(cmds, "timeout")
    /\ input = NoInput

\* Every stop command of cs is issued while a track is playing, given that
\* `playing` holds before cs and that play and stop set and clear it.
RECURSIVE StopsOnlyWhenPlaying(_, _)
StopsOnlyWhenPlaying(playing, cs) ==
    IF cs = << >> THEN TRUE
    ELSE IF Head(cs).op = "stop"
         THEN playing /\ StopsOnlyWhenPlaying(FALSE, Tail(cs))
    ELSE IF Head(cs).op = "play" THEN StopsOnlyWhenPlaying(TRUE, Tail(cs))
    ELSE StopsOnlyWhenPlaying(playing, Tail(cs))

\* whether a track is playing after the commands cs
RECURSIVE PlayingAfter(_, _)
PlayingAfter(playing, cs) ==
    IF cs = << >> THEN playing
    ELSE PlayingAfter(IF Head(cs).op = "stop" THEN FALSE
                      ELSE IF Head(cs).op = "play" THEN TRUE
                      ELSE playing, Tail(cs))

\* playback records with nothing playing
IdlePlayback ==
    [isSongPlaying : {FALSE}, currentTrack : {0, 1, 99}, led : BOOLEAN,
     cmds : {<< >>, <<Cmd("readSong", -1)>>}]

\* C15: stopSong with nothing playing returns its playback state as it got
\* it; a new tag whose record is unreadable, found with nothing playing,
\* issues no stop and no LED command and changes no playback state; in every
\* step each stop command is issued while a track is playing, and
\* isSongPlaying follows the play and stop commands, so that two stop
\* commands never come without a play command between them.
C15_StopIsIdempotent ==
    /\ \A p \in IdlePlayback : StopSong(p) = p
    /\ [][ /\ StopsOnlyWhenPlaying(isSongPlaying, cmds')
           /\ isSongPlaying' = PlayingAfter(isSongPlaying, cmds')
           /\ (~isSongPlaying /\ HasCmd(cmds', "readSong", -1))
              => ( /\ ~HasOp(cmds', "stop")
                   /\ ~HasOp(cmds', "led")
                   /\ UNCHANGED <<isSongPlaying, currentTrack, led>> ) ]_vars

\* C15 witness: handleNewTag has called stopSong for an unreadable record
\* while nothing was playing.
C15_Witness ==
    /\ pc = "grace"
    /\ event = "new"
    /\ HasCmd(cmds, "readSong", -1)
    /\ ~HasOp(cmds, "stop")
    /\ ~isSongPlaying
    /\ ~led

\* a page holding the magic bytes 'S','O','N' and a song number in 1..99
ValidRecord(d) == d[1] = 83 /\ d[2] = 79 /\ d[3] = 78 /\ d[4] \in 1..99

InvalidRecords ==
    { <<0, 0, 0, 0>>, <<83, 79, 78, 0>>, <<83, 79, 78, 100>>,
      <<83, 79, 78, 255>>, <<83, 79, 0, 7>>, <<83, 0, 78, 7>>, <<0, 79, 78, 7>>,
      <<115, 111, 110, 7>> }

\* C16: a record whose page read fails, whose magic bytes are not 'S','O','N'
\* or whose number is outside 1..99 decodes to the error value; a new-tag
\* event with such a record issues one stop command if a track is playing
\* and none otherwise, issues no play command, leaves isSongPlaying false and
\* currentTrack 0, and records the tag's UID with isTagPresent true.
C16_UnreadableRecordStops ==
    /\ \A d \in InvalidRecords :
          ~ValidRecord(d) /\ ReadSongNumberFromTag(TRUE, d) = -1
    /\ \A n \in 1..99 : ReadSongNumberFromTag(FALSE, SongRecord(n)) = -1
    /\ [][ ( /\ pc = "nfc"
             /\ event' = "new"
             /\ HasOp(cmds', "poll")
             /\ \/ HasCmd(cmds', "readSong", -1)
                \/ ~ValidRecord(pages[tag]) )
           => ( /\ HasCmd(cmds', "readSong", -1)
                /\ ~HasOp(cmds', "play")
                /\ CountOp(cmds', "stop") = (IF isSongPlaying THEN 1 ELSE 0)
                /\ ~isSongPlaying'
                /\ currentTrack' = 0
                /\ isTagPresent'
                /\ RecordedUid' = TagUid[tag] ) ]_vars

\* C16 witness: during playback the tag was replaced by one whose record
\* holds the number 100; playback has been stopped and the UID recorded.
C16_Witness ==
    /\ pc = "grace"
    /\ event = "new"
    /\ tag = "C"
    /\ pages[tag] = SongRecord(100)
    /\ HasCmd(cmds, "readSong", -1)
    /\ HasOp(cmds, "stop")
    /\ ~isSongPlaying
    /\ currentTrack = 0
    /\ isTagPresent
    /\ RecordedUid = TagUid[tag]

\* C17: a play-mode poll that finds no tag clears isTagPresent and nothing
\* else: the UID on record, lastTagDetectionTime, isSongPlaying, currentTrack
\* and the LED stay as they are and only the poll is made; a stop command is
\* issued either by the grace check or by a poll that found a new tag.
C17_AbsentPollOnlyClearsFlag ==
    [][ /\ (pc = "nfc" /\ HasOp(cmds', "poll") /\ event' = "absent")
           => ( /\ ~isTagPresent'
                /\ cmds' = <<Cmd("poll", PLAY_POLL_TIMEOUT)>>
                /\ UNCHANGED <<lastUID, lastUIDLength, lastTagDetectionTime,
                               isSongPlaying, currentTrack, led>> )
        /\ HasOp(cmds', "stop")
           => \/ pc = "grace"
              \/ pc = "nfc" /\ event' = "new" ]_vars

\* C17 witness: the tag of the playing track was there at the previous poll
\* and the poll just made found none.
C17_Witness ==
    /\ pc = "grace"
    /\ prevEvent \in {"new", "same"}
    /\ event = "absent"
    /\ cmds = <<Cmd("poll", PLAY_POLL_TIMEOUT)>>
    /\ ~isTagPresent
    /\ isSongPlaying
    /\ lastUIDLength > 0

\* C18: whenever the time that has really passed since a timestamp was taken
\* is below the modulus of the counter, the difference the firmware computes
\* equals it, also when the counter has wrapped in between; the grace-period
\* stop, the acceptance of a press and the poll are then decided at the
\* elapsed times 2000 ms, 200 ms and 200 ms as without a wrap.
C18_ElapsedTimeIsWrapSafe ==
    /\ [] /\ elapsed.detection < ClockModulus
             => Elapsed(clock, lastTagDetectionTime) = elapsed.detection
          /\ elapsed.poll < ClockModulus
             => Elapsed(clock, lastNFCCheckTime) = elapsed.poll
          /\ elapsed.up < ClockModulus
             => Elapsed(clock, lastUpPress) = elapsed.up
          /\ elapsed.down < ClockModulus
             => Elapsed(clock, lastDownPress) = elapsed.down
    /\ [][ /\ (pc = "grace" /\ elapsed.detection < ClockModulus)
              => ( HasOp(cmds', "stop")
                   <=> ( /\ ~isTagPresent /\ isSongPlaying
                         /\ elapsed.detection > 2000 ) )
           /\ (pc = "nfc" /\ elapsed.poll < ClockModulus)
              => (HasOp(cmds', "poll") <=> elapsed.poll >= 200)
           /\ (pc = "buttons" /\ elapsed.up < ClockModulus)
              => ( UpAccepted
                   <=> (lastUpState' /\ ~lastUpState /\ elapsed.up > 200) )
           /\ (pc = "buttons" /\ elapsed.down < ClockModulus)
              => ( DownAccepted
                   <=> ( /\ lastDownState' /\ ~lastDownState
                         /\ elapsed.down > 200 ) ) ]_vars

\* C18 witness: the counter wrapped after the tag's last detection and the
\* grace check has stopped the track, more than 2000 ms after it.
C18_Witness ==
    /\ pc = "delay"
    /\ HasOp(cmds, "stop")
    /\ clock < lastTagDetectionTime
    /\ elapsed.detection > TAG_GRACE_PERIOD
    /\ elapsed.detection < ClockModulus
    /\ ~isTagPresent

\* C19: in play mode the song record is read, and a play command issued, only
\* by a poll that is handled as a new tag; a poll that detects the UID the
\* previous poll detected reads nothing and plays nothing, so that after a
\* failed or invalid read nothing is playing for as long as every poll
\* detects that tag.
C19_RecordReadOncePerRun ==
    [][ /\ (pc = "nfc" /\ HasOp(cmds', "readSong")) => event' = "new"
        /\ HasOp(cmds', "play")
           => (pc = "nfc" /\ event' = "new" /\ HasOp(cmds', "readSong"))
        /\ CountOp(cmds', "readSong") <= 1
        /\ ( /\ pc = "nfc"
             /\ HasOp(cmds', "poll")
             /\ event \in {"new", "same"}
             /\ event' \in {"new", "same"}
             /\ polled' = polled )
           => ( /\ ~HasOp(cmds', "readSong")
                /\ ~HasOp(cmds', "play")
                /\ isSongPlaying' = isSongPlaying ) ]_vars

\* C19 witness: a tag with a valid record, whose read failed when it was
\* found, has been detected again and nothing is playing.
C19_Witness ==
    /\ pc = "grace"
    /\ event = "same"
    /\ prevEvent = "new"
    /\ pages = InitialPages
    /\ tag = "A"
    /\ RecordedUid = TagUid[tag]
    /\ ~isSongPlaying
    /\ cmds = <<Cmd("poll", PLAY_POLL_TIMEOUT)>>

\* a step of handleSerialCommands that takes a command line, or a step of the
\* write or read operation it started
CommandStep ==
    \/ pc = "serial" /\ input'.available
    \/ pc \in {"write_poll", "write_page", "read_poll", "read_page"} /\ pc' # pc

\* C20: no step of a write, read or playmode command, whether the tag is
\* found, the page access fails or the operation times out, changes
\* isSongPlaying, currentTrack, isTagPresent, the UID on record,
\* lastTagDetectionTime, currentVolume, the LED or the debounce state of the
\* buttons, or issues a play, stop or volume command; and a poll that detects
\* again the UID of the playing tag leaves the track as it is also when the
\* tag's record now holds another number.
C20_CommandsLeavePlaybackAlone ==
    [][ /\ CommandStep
           => ( /\ UNCHANGED <<isSongPlaying, currentTrack, isTagPresent,
                               lastUID, lastUIDLength, lastTagDetectionTime,
                               currentVolume, buttons, led>>
                /\ ~HasOp(cmds', "play")
                /\ ~HasOp(cmds', "stop")
                /\ ~HasOp(cmds', "volume") )
        /\ ( /\ pc = "nfc"
             /\ HasOp(cmds', "poll")
             /\ event \in {"new", "same"}
             /\ event' \in {"new", "same"}
             /\ polled' = polled
             /\ isSongPlaying
             /\ pages[tag] # SongRecord(currentTrack) )
           => UNCHANGED <<isSongPlaying, currentTrack>> ]_vars

\* C20 witness: track 1 is playing from tag A, whose record has been
\* rewritten to 99, and the tag has been detected again.
C20_Witness ==
    /\ pc = "grace"
    /\ event = "same"
    /\ tag = "A"
    /\ pages[tag] = SongRecord(99)
    /\ isSongPlaying
    /\ currentTrack = 1
    /\ isTagPresent

====
